---- MODULE Spec2Model ----
(***************************************************************************)
(* Model of the Glowmarkt sensor platform                                  *)
(* (custom_components/glowmarkt/sensor.py and api.py).                     *)
(*                                                                         *)
(* Time.  The wall clock `now` counts units of 30 seconds since 00:00:00   *)
(* of day 0; an even value is a time whose second and microsecond are 0,   *)
(* an odd value a time strictly inside the minute.  Each datetime.now()    *)
(* of the code is a separate read of that clock: a later read returns the  *)
(* same unit or the next one.                                              *)
(*                                                                         *)
(* Numbers.  Every number the API returns (kWh, pence) is a fixed-point    *)
(* integer counting thousandths.  A displayed value rounded to d decimals  *)
(* is an integer counting units of 10^-d.                                  *)
(***************************************************************************)
EXTENDS Integers, Sequences, FiniteSets, TLC

VARIABLES
    now,                  \* wall clock, in units of 30 seconds
    deadline,             \* the clock value at which the observed run ends
    entity,               \* the entity whose ticks the run follows
    usage_initalised,     \* UsageSensor.initalised
    usage_native_value,   \* UsageSensor._attr_native_value: <<>> is None, <<v>> hundredths
    usage_last_reset,     \* UsageSensor._attr_last_reset: <<>> is None, <<t>> a time
    cost_initialised,     \* Cost.initialised
    cost_native_value,    \* Cost._attr_native_value: <<>> is None, <<v>> hundredths
    rate_initalised,      \* TariffCoordinator.rate_initalised
    standing_initalised,  \* TariffCoordinator.standing_initalised
    coordinator_data,     \* DataUpdateCoordinator.data as seen by Rate and Standing
    rate_native_value,    \* Rate._attr_native_value: <<>> is None, <<v>> ten-thousandths
    standing_native_value,\* Standing._attr_native_value
    coordinator_called,   \* observer: _async_update_data has been called before
    last_mapping,         \* observer: the last non-empty mapping the coordinator returned
    ok_in_hour,           \* observer: refreshes of the initialised usage or cost sensor
                          \* that returned, within the current clock hour
    client_id,            \* number of GlowMarkt clients constructed for the entry so far
    hass_data,            \* hass.data[DOMAIN]: <<>>, or <<id>> the client of the entry
    open_sessions,        \* the clients whose aiohttp session is open
    session_token,        \* session.headers["token"] of the entry's client: <<>> or <<t>>
    ve_cache,             \* the clients lru_cache holds a get_virtual_entites coroutine for
    ve_first,             \* observer: <<list>> the first successful get_virtual_entites
                          \* of the entry's client returned
    topology,             \* the virtual entities and resources upstream holds
    entities,             \* the entities passed to async_add_entities
    ev                    \* observer: what the last handler did

vars == <<now, deadline, entity, usage_initalised, usage_native_value,
          usage_last_reset, cost_initialised, cost_native_value,
          rate_initalised, standing_initalised, coordinator_data,
          rate_native_value, standing_native_value, coordinator_called,
          last_mapping, ok_in_hour, client_id, hass_data, open_sessions,
          session_token, ve_cache, ve_first, topology, entities, ev>>

usageVars == <<usage_initalised, usage_native_value, usage_last_reset>>
costVars == <<cost_initialised, cost_native_value>>
tariffVars == <<rate_initalised, standing_initalised, coordinator_data,
                rate_native_value, standing_native_value, coordinator_called,
                last_mapping>>
clientVars == <<client_id, hass_data, open_sessions, session_token, ve_cache,
                ve_first>>
setupVars == <<topology, entities>>

----------------------------------------------------------------------------
(* Bounds *)

MaxElapsed == 18       \* length of an observed run, in units of 30 seconds
MaxEntries == 2        \* longest reading window upstream returns
MaxTariffs == 2        \* longest tariff list upstream returns
MaxCount == 3          \* cap of the per-hour refresh counter
MaxClients == 2        \* clients constructed for the entry (set up, unloaded, set up again)
MaxVEs == 2            \* virtual entities upstream holds
MaxResources == 2      \* resources of one virtual entity
MaxSegments == 3       \* dot-separated segments of a classifier

\* the times an observed run starts at: 23:58:00 of day 0 (midnight and the
\* first due window), 00:29:00 of day 1 (the second due window) and 01:02:00
\* of day 1 (the 01:05 cutoff)
SceneStarts == {2876, 2938, 3004}

\* values of reading entries, in thousandths: 0 and 1234
ReadingValues == {0, 1234000}
\* tariff rates and standing charges in thousandths of a penny: 0, 12.346, 1550
RateValues == {0, 12346, 1550000}
StandingValues == {0, 27123}

----------------------------------------------------------------------------
(* datetime arithmetic on the 30-second clock *)

DayUnits == 2 * 60 * 24

\* time(1, 5), sensor.py line 329: 01:05:00.000000
EarlyCutoff == 2 * (60 * 1 + 5)

DateOf(t) == t \div DayUnits
TimeOfDay(t) == t % DayUnits
MinuteOf(t) == (t \div 2) % 60
ClockHour(t) == t \div 120

\* now.replace(hour=0, minute=0, second=0, microsecond=0)
ReplaceMidnight(t) == t - TimeOfDay(t)
\* now.replace(second=0, microsecond=0)
ReplaceSecond(t) == t - (t % 2)
\* now - timedelta(days=1)
MinusOneDay(t) == t - DayUnits

\* the values a datetime.now() may return when the previous read returned t
ClockReads(t) == {r \in {t, t + 1} : r <= deadline}

----------------------------------------------------------------------------
(* Rounding: round(x / q) to the nearest integer, ties to even.  With x in  *)
(* thousandths, RoundDiv(x, 10) is round(x, 2) in hundredths.               *)

RoundDiv(x, q) ==
    LET lo == x \div q
        rem == x % q
    IN  IF 2 * rem < q THEN lo
        ELSE IF 2 * rem > q THEN lo + 1
        ELSE IF lo % 2 = 0 THEN lo ELSE lo + 1

----------------------------------------------------------------------------
(* The gate *)

\* should_update with the upper ends of the windows excluded
should_update_Open(minutes) ==
    (1 <= minutes /\ minutes < 5) \/ (31 <= minutes /\ minutes < 35)


should_update(minutes) ==
    (1 <= minutes /\ minutes <= 5) \/ (31 <= minutes /\ minutes <= 35)

----------------------------------------------------------------------------
(* Upstream.  An answer of the metering API to one request: the transport  *)
(* failed (aiohttp raises), or a response with a status and a JSON body.   *)

StatusCodes == {200, 500}

RECURSIVE SeqsUpTo(_, _)
SeqsUpTo(S, n) ==
    IF n = 0 THEN {<<>>}
    ELSE LET shorter == SeqsUpTo(S, n - 1)
         IN  shorter \cup {Append(q, x) : q \in {r \in shorter : Len(r) = n - 1}, x \in S}

\* answers to GET /resource/{id}/catchup: the body is never read
CatchupAnswers ==
    {[failed |-> TRUE, status |-> 0]} \cup
    {[failed |-> FALSE, status |-> c] : c \in StatusCodes}

\* answers to GET /resource/{id}/readings: "data" is a list of [epoch, value]
ReadingAnswers ==
    {[failed |-> TRUE, status |-> 0, data |-> <<>>]} \cup
    {[failed |-> FALSE, status |-> c, data |-> <<>>] : c \in StatusCodes \ {200}} \cup
    {[failed |-> FALSE, status |-> 200, data |-> d] : d \in SeqsUpTo(ReadingValues, MaxEntries)}

TariffRecords == [rate : RateValues, standing_charge : StandingValues]

\* answers to GET /resource/{id}/tariff: "data" is a list of tariff records
TariffAnswers ==
    {[failed |-> TRUE, status |-> 0, data |-> <<>>]} \cup
    {[failed |-> FALSE, status |-> c, data |-> <<>>] : c \in StatusCodes \ {200}} \cup
    {[failed |-> FALSE, status |-> 200, data |-> d] : d \in SeqsUpTo(TariffRecords, MaxTariffs)}

----------------------------------------------------------------------------
(* GlowMarkt (api.py).  A call either returns ret or raises exc.           *)

Return(v) == [raised |-> FALSE, exc |-> "", ret |-> v]
Raise(e) == [raised |-> TRUE, exc |-> e, ret |-> <<>>]

\* GlowMarkt.catchup: awaits the request and ignores the response
catchup(answer) ==
    IF answer.failed THEN Raise("ClientError") ELSE Return(<<>>)

\* GlowMarkt.get_reading: the values of the "data" list, in order
get_reading(answer) ==
    IF answer.failed THEN Raise("ClientError")
    ELSE IF answer.status # 200 THEN Raise("ValueError")
    ELSE Return(answer.data)

\* GlowMarkt.get_tariff: the current rates of the first tariff record
get_tariff(answer) ==
    IF answer.failed THEN Raise("ClientError")
    ELSE IF answer.status # 200 THEN Raise("ValueError")
    ELSE IF Len(answer.data) = 0 THEN Raise("IndexError")
    ELSE Return(answer.data[1])

----------------------------------------------------------------------------
(* GlowMarkt.connect and GlowMarkt.get_virtual_entites (api.py)            *)

\* the statuses POST /auth answers with, and the tokens a 200 answer carries
AuthStatusCodes == {200, 204, 401}
Tokens == {"jwt1", "jwt2"}

\* token is <<t>> when the body has a "token" key and <<>> when it has none
AuthAnswers ==
    {[failed |-> TRUE, status |-> 0, token |-> <<>>]} \cup
    {[failed |-> FALSE, status |-> c, token |-> t] :
        c \in AuthStatusCodes, t \in {<<>>} \cup {<<k>> : k \in Tokens}}

VEIds == {"ve1", "ve2"}

\* answers to GET /virtualentity: "data" is the list of virtual entities
EntityAnswers ==
    {[failed |-> TRUE, status |-> 0, data |-> <<>>]} \cup
    {[failed |-> FALSE, status |-> c, data |-> <<>>] : c \in StatusCodes \ {200}} \cup
    {[failed |-> FALSE, status |-> 200, data |-> d] : d \in SeqsUpTo(VEIds, MaxVEs)}

\* GlowMarkt.connect with the token the status test lets through unexamined
connect_NoStatusCheck(token, answer) ==
    IF answer.failed THEN [raised |-> TRUE, exc |-> "ClientError", token |-> token]
    ELSE IF answer.token = <<>>
    THEN [raised |-> TRUE, exc |-> "KeyError", token |-> token]
    ELSE [raised |-> FALSE, exc |-> "", token |-> answer.token]

\* GlowMarkt.connect: the token header after the call, or the exception
connect(token, answer) ==
    IF answer.failed THEN [raised |-> TRUE, exc |-> "ClientError", token |-> token]
    ELSE IF answer.status # 200
    THEN [raised |-> TRUE, exc |-> "ValueError", token |-> token]
    ELSE IF answer.token = <<>>
    THEN [raised |-> TRUE, exc |-> "KeyError", token |-> token]
    ELSE [raised |-> FALSE, exc |-> "", token |-> answer.token]

\* GlowMarkt.get_virtual_entites under @lru_cache: the wrapper caches the
\* coroutine the first call creates; a later call on the same client gets
\* that coroutine back, and awaiting a finished coroutine raises
\* RuntimeError.  `cached` says the cache holds a coroutine for the client.
get_virtual_entites(cached, answer) ==
    IF cached
    THEN [raised |-> TRUE, exc |-> "RuntimeError", ret |-> <<>>, calls |-> <<>>]
    ELSE IF answer.failed
    THEN [raised |-> TRUE, exc |-> "ClientError", ret |-> <<>>,
          calls |-> <<"virtualentity">>]
    ELSE IF answer.status # 200
    THEN [raised |-> TRUE, exc |-> "ValueError", ret |-> <<>>,
          calls |-> <<"virtualentity">>]
    ELSE [raised |-> FALSE, exc |-> "", ret |-> answer.data,
          calls |-> <<"virtualentity">>]

\* GlowMarkt.close: the session of the client is closed
close(sessions, id) == sessions \ {id}

\* validate_input (config_flow.py): a client of its own connects and is
\* closed in the finally clause; ValueError becomes InvalidAuth
validate_input(sessions, answer) ==
    LET r == connect(<<>>, answer)
    IN  [raised |-> r.raised,
         exc |-> IF r.exc = "ValueError" THEN "InvalidAuth" ELSE r.exc,
         sessions |-> close(sessions \cup {0}, 0)]

----------------------------------------------------------------------------
(* supply_type, device_name and async_setup_entry (sensor.py).  A classifier
   is the sequence of its dot-separated segments: "gas.consumption.cost" is
   <<"gas", "consumption", "cost">>.                                        *)

Segments == {"electricity", "gas", "consumption", "cost", "water"}

Classifiers == SeqsUpTo(Segments, MaxSegments)

ElectricityConsumption == <<"electricity", "consumption">>
GasConsumption == <<"gas", "consumption">>
ElectricityCost == <<"electricity", "consumption", "cost">>
GasCost == <<"gas", "consumption", "cost">>

\* Python's `sub in text` on strings: sub occurs as a contiguous run
Contains(sub, text) ==
    \E i \in 0..(Len(text) - Len(sub)) : SubSeq(text, i + 1, i + Len(sub)) = sub

\* supply_type comparing with == where the code tests containment
supply_type_Exact(classifier) ==
    IF ElectricityConsumption = classifier THEN Return("electricity")
    ELSE IF GasConsumption = classifier THEN Return("gas")
    ELSE Raise("ValueError")

\* supply_type: electricity is tested first
supply_type(classifier) ==
    IF Contains(ElectricityConsumption, classifier) THEN Return("electricity")
    ELSE IF Contains(GasConsumption, classifier) THEN Return("gas")
    ELSE Raise("ValueError")

\* device_name: "<name> smart <supply> meter"
device_name(resource, virtual_entity) ==
    LET supply == supply_type(resource.classifier)
    IN  IF supply.raised THEN supply
        ELSE Return(<<virtual_entity.id, "smart", supply.ret, "meter">>)

\* the classifiers of the resources setup is given
SetupClassifiers ==
    {ElectricityConsumption, GasConsumption, ElectricityCost, GasCost,
     <<"water", "consumption">>}

\* the resources of virtual entity v: ids are unique across virtual entities
ResourcesOf(v, cs) ==
    [i \in 1..Len(cs) |-> [classifier |-> cs[i], resource_id |-> <<v, i>>]]

\* what upstream holds: a list of virtual entities, each with its resources
Topologies ==
    LET lists == SeqsUpTo(SetupClassifiers, MaxResources)
        shapes == SeqsUpTo(lists, MaxVEs)
    IN  {[v \in 1..Len(sh) |-> [id |-> v, resources |-> ResourcesOf(v, sh[v])]] :
            sh \in shapes}

\* the meters dict before any usage resource is registered
NoMeters == [c \in {ElectricityConsumption, GasConsumption} |-> <<>>]

SensorOf(kind, resource, ve, meter) ==
    [kind |-> kind, classifier |-> resource.classifier,
     resource_id |-> resource.resource_id, ve |-> ve.id, meter_id |-> meter]

\* the first loop over the resources of one virtual entity: a usage, a
\* standing and a rate sensor per usage resource, which is registered in meters
RECURSIVE usage_loop(_, _, _)
usage_loop(st, ve, resources) ==
    IF resources = <<>> THEN st
    ELSE LET r == Head(resources)
             next == IF r.classifier \in {ElectricityConsumption, GasConsumption}
                     THEN [st EXCEPT
                             !.entities = @ \o <<SensorOf("usage", r, ve, <<>>),
                                                 SensorOf("standing", r, ve, <<>>),
                                                 SensorOf("rate", r, ve, <<>>)>>,
                             !.meters[r.classifier] = <<r.resource_id>>]
                     ELSE st
         IN  usage_loop(next, ve, Tail(resources))

\* the second loop: a cost sensor per cost resource, with the meter looked
\* up in meters; a missing key raises KeyError
RECURSIVE cost_loop(_, _, _)
cost_loop(st, ve, resources) ==
    IF resources = <<>> \/ st.raised THEN st
    ELSE LET r == Head(resources)
             key == IF r.classifier = GasCost THEN GasConsumption
                    ELSE ElectricityConsumption
             next == IF r.classifier \notin {GasCost, ElectricityCost} THEN st
                     ELSE IF st.meters[key] = <<>>
                     THEN [st EXCEPT !.raised = TRUE, !.exc = "KeyError"]
                     ELSE [st EXCEPT
                             !.entities = @ \o <<SensorOf("cost", r, ve, st.meters[key])>>]
         IN  cost_loop(next, ve, Tail(resources))

\* get_resources (api.py) for one virtual entity
get_resources(ve, answer) ==
    IF answer = "ClientError" THEN Raise("ClientError")
    ELSE IF answer = "500" THEN Raise("ValueError")
    ELSE Return(ve.resources)

\* the loop over the virtual entities; meters is created once, before the
\* loop, and carries over from one virtual entity to the next
RECURSIVE entity_loop(_, _, _, _)
entity_loop(st, ves, failAt, failAs) ==
    IF ves = <<>> \/ st.raised THEN st
    ELSE LET ve == Head(ves)
             rs == get_resources(ve, IF ve.id = failAt THEN failAs ELSE "200")
             st0 == [st EXCEPT !.calls = Append(@, "resources")]
             next == IF rs.raised
                     THEN [st0 EXCEPT !.raised = TRUE, !.exc = rs.exc]
                     ELSE cost_loop(usage_loop(st0, ve, rs.ret), ve, rs.ret)
         IN  entity_loop(next, Tail(ves), failAt, failAs)

\* async_setup_entry of sensor.py: connect, the virtual entities, then the
\* loops; entities reach async_add_entities only when nothing raised
async_setup_entry(token, cached, auth, veAnswer, ves, failAt, failAs) ==
    LET c == connect(token, auth)
        g == get_virtual_entites(cached, veAnswer)
        st0 == [entities |-> <<>>, meters |-> NoMeters, raised |-> FALSE,
                exc |-> "", calls |-> <<"auth">> \o g.calls]
        st == entity_loop(st0, ves, failAt, failAs)
    IN  IF c.raised
        THEN [raised |-> TRUE, exc |-> c.exc, entities |-> <<>>, token |-> c.token,
              cached |-> cached, calls |-> <<"auth">>]
        ELSE IF g.raised
        THEN [raised |-> TRUE, exc |-> g.exc, entities |-> <<>>, token |-> c.token,
              cached |-> TRUE, calls |-> st0.calls]
        ELSE [raised |-> st.raised, exc |-> st.exc,
              entities |-> IF st.raised THEN <<>> ELSE st.entities,
              token |-> c.token, cached |-> TRUE, calls |-> st.calls]

----------------------------------------------------------------------------
(* daily_data (sensor.py).  t1 is the clock read of line 329, t2 the read  *)
(* of line 331 or 333.  The result names the requests issued, in order.    *)

\* daily_data returning the first entry only
daily_data_FirstOnly(t1, t2, cuAnswer, rdAnswer) ==
    LET now_ == IF TimeOfDay(t1) <= EarlyCutoff THEN MinusOneDay(t2) ELSE t2
        cu == catchup(cuAnswer)
        reading == get_reading(rdAnswer)
        base == [raised |-> FALSE, exc |-> "", value |-> 0,
                 t_from |-> ReplaceMidnight(now_), t_to |-> ReplaceSecond(now_),
                 calls |-> <<"catchup", "get_reading">>]
    IN  IF cu.raised
        THEN [base EXCEPT !.raised = TRUE, !.exc = cu.exc, !.calls = <<"catchup">>]
        ELSE IF reading.raised
        THEN [base EXCEPT !.raised = TRUE, !.exc = reading.exc]
        ELSE IF Len(reading.ret) = 0
        THEN [base EXCEPT !.raised = TRUE, !.exc = "IndexError"]
        ELSE [base EXCEPT !.value = reading.ret[1]]

\* daily_data requesting the reading first and the catchup after it
daily_data_ReadingFirst(t1, t2, cuAnswer, rdAnswer) ==
    LET now_ == IF TimeOfDay(t1) <= EarlyCutoff THEN MinusOneDay(t2) ELSE t2
        cu == catchup(cuAnswer)
        reading == get_reading(rdAnswer)
        base == [raised |-> FALSE, exc |-> "", value |-> 0,
                 t_from |-> ReplaceMidnight(now_), t_to |-> ReplaceSecond(now_),
                 calls |-> <<"get_reading", "catchup">>]
    IN  IF reading.raised
        THEN [base EXCEPT !.raised = TRUE, !.exc = reading.exc,
                          !.calls = <<"get_reading">>]
        ELSE IF cu.raised
        THEN [base EXCEPT !.raised = TRUE, !.exc = cu.exc]
        ELSE IF Len(reading.ret) = 0
        THEN [base EXCEPT !.raised = TRUE, !.exc = "IndexError"]
        ELSE [base EXCEPT !.value =
                 reading.ret[1] + (IF Len(reading.ret) > 1 THEN reading.ret[2] ELSE 0)]

daily_data(t1, t2, cuAnswer, rdAnswer) ==
    LET now_ == IF TimeOfDay(t1) <= EarlyCutoff THEN MinusOneDay(t2) ELSE t2
        t_from == ReplaceMidnight(now_)
        t_to == ReplaceSecond(now_)
        cu == catchup(cuAnswer)
        reading == get_reading(rdAnswer)
        base == [raised |-> FALSE, exc |-> "", value |-> 0,
                 t_from |-> t_from, t_to |-> t_to,
                 calls |-> <<"catchup", "get_reading">>]
    IN  IF cu.raised
        THEN [base EXCEPT !.raised = TRUE, !.exc = cu.exc, !.calls = <<"catchup">>]
        ELSE IF reading.raised
        THEN [base EXCEPT !.raised = TRUE, !.exc = reading.exc]
        ELSE IF Len(reading.ret) = 0
        THEN [base EXCEPT !.raised = TRUE, !.exc = "IndexError"]
        ELSE [base EXCEPT !.value =
                 reading.ret[1] + (IF Len(reading.ret) > 1 THEN reading.ret[2] ELSE 0)]

\* tariff_data (sensor.py): the current rates, or the exception of get_tariff
tariff_data(answer) == get_tariff(answer)

----------------------------------------------------------------------------
(* UsageSensor.async_update and Cost.async_update as functions of the      *)
(* sensor's fields, the gate and the outcome dd of daily_data: the fields  *)
(* after the call, the requests issued, and whether the call raised.  The  *)
(* code has no try/except: an exception of daily_data leaves async_update. *)

Outcome(self, calls, raised, exc) ==
    [self |-> self, calls |-> calls, raised |-> raised, exc |-> exc]

\* UsageAsyncUpdate with `if` in place of `elif`: the gate is not consulted
UsageAsyncUpdate_Ungated(self, due, dd) ==
    IF dd.raised THEN Outcome(self, dd.calls, TRUE, dd.exc)
    ELSE IF dd.value # 0
    THEN Outcome([initalised |-> TRUE,
                  native_value |-> <<RoundDiv(dd.value, 10)>>,
                  last_reset |-> <<dd.t_from>>], dd.calls, FALSE, "")
    ELSE Outcome(self, dd.calls, FALSE, "")

\* UsageAsyncUpdate with the flag set before the fetch instead of after it
UsageAsyncUpdate_FlagFirst(self, due, dd) ==
    IF ~self.initalised
    THEN IF dd.raised
         THEN Outcome([self EXCEPT !.initalised = TRUE], dd.calls, TRUE, dd.exc)
         ELSE IF dd.value # 0
         THEN Outcome([initalised |-> TRUE,
                       native_value |-> <<RoundDiv(dd.value, 10)>>,
                       last_reset |-> <<dd.t_from>>], dd.calls, FALSE, "")
         ELSE Outcome([self EXCEPT !.initalised = TRUE], dd.calls, FALSE, "")
    ELSE IF due
    THEN IF dd.raised THEN Outcome(self, dd.calls, TRUE, dd.exc)
         ELSE IF dd.value # 0
         THEN Outcome([self EXCEPT !.native_value = <<RoundDiv(dd.value, 10)>>,
                                   !.last_reset = <<dd.t_from>>], dd.calls, FALSE, "")
         ELSE Outcome(self, dd.calls, FALSE, "")
    ELSE Outcome(self, <<>>, FALSE, "")

UsageAsyncUpdate(self, due, dd) ==
    IF ~self.initalised
    THEN IF dd.raised THEN Outcome(self, dd.calls, TRUE, dd.exc)
         ELSE IF dd.value # 0
         THEN Outcome([initalised |-> TRUE,
                       native_value |-> <<RoundDiv(dd.value, 10)>>,
                       last_reset |-> <<dd.t_from>>], dd.calls, FALSE, "")
         ELSE Outcome(self, dd.calls, FALSE, "")
    ELSE IF due
    THEN IF dd.raised THEN Outcome(self, dd.calls, TRUE, dd.exc)
         ELSE IF dd.value # 0
         THEN Outcome([self EXCEPT !.native_value = <<RoundDiv(dd.value, 10)>>,
                                   !.last_reset = <<dd.t_from>>], dd.calls, FALSE, "")
         ELSE Outcome(self, dd.calls, FALSE, "")
    ELSE Outcome(self, <<>>, FALSE, "")

\* CostAsyncUpdate without the division by 100
CostAsyncUpdate_NoDivide(self, due, dd) ==
    IF ~self.initialised
    THEN IF dd.raised THEN Outcome(self, dd.calls, TRUE, dd.exc)
         ELSE IF dd.value # 0
         THEN Outcome([initialised |-> TRUE,
                       native_value |-> <<RoundDiv(dd.value, 10)>>],
                      dd.calls, FALSE, "")
         ELSE Outcome(self, dd.calls, FALSE, "")
    ELSE IF due
    THEN IF dd.raised THEN Outcome(self, dd.calls, TRUE, dd.exc)
         ELSE IF dd.value # 0
         THEN Outcome([self EXCEPT !.native_value = <<RoundDiv(dd.value, 10)>>],
                      dd.calls, FALSE, "")
         ELSE Outcome(self, dd.calls, FALSE, "")
    ELSE Outcome(self, <<>>, FALSE, "")

\* CostAsyncUpdate without the `if value:` tests
CostAsyncUpdate_StoresZero(self, due, dd) ==
    IF ~self.initialised
    THEN IF dd.raised THEN Outcome(self, dd.calls, TRUE, dd.exc)
         ELSE Outcome([initialised |-> TRUE,
                       native_value |-> <<RoundDiv(dd.value, 1000)>>],
                      dd.calls, FALSE, "")
    ELSE IF due
    THEN IF dd.raised THEN Outcome(self, dd.calls, TRUE, dd.exc)
         ELSE Outcome([self EXCEPT !.native_value = <<RoundDiv(dd.value, 1000)>>],
                      dd.calls, FALSE, "")
    ELSE Outcome(self, <<>>, FALSE, "")

\* value / 100 of thousandths, rounded to 2 decimals, is x / 1000 in hundredths
CostAsyncUpdate(self, due, dd) ==
    IF ~self.initialised
    THEN IF dd.raised THEN Outcome(self, dd.calls, TRUE, dd.exc)
         ELSE IF dd.value # 0
         THEN Outcome([initialised |-> TRUE,
                       native_value |-> <<RoundDiv(dd.value, 1000)>>],
                      dd.calls, FALSE, "")
         ELSE Outcome(self, dd.calls, FALSE, "")
    ELSE IF due
    THEN IF dd.raised THEN Outcome(self, dd.calls, TRUE, dd.exc)
         ELSE IF dd.value # 0
         THEN Outcome([self EXCEPT !.native_value = <<RoundDiv(dd.value, 1000)>>],
                      dd.calls, FALSE, "")
         ELSE Outcome(self, dd.calls, FALSE, "")
    ELSE Outcome(self, <<>>, FALSE, "")

----------------------------------------------------------------------------
(* TariffCoordinator, Rate and Standing (sensor.py)                        *)

\* the values of DataUpdateCoordinator.data: None, {} or a tariff mapping
NoData == [tag |-> "none", rate |-> 0, standing_charge |-> 0]
EmptyMapping == [tag |-> "empty", rate |-> 0, standing_charge |-> 0]
Mapping(rates) == [tag |-> "full", rate |-> rates.rate,
                   standing_charge |-> rates.standing_charge]

\* truth value of `self.coordinator.data`
Truthy(d) == d.tag = "full"

\* the condition of line 211
NeverPopulated(self) == (~self.standing_initalised) \/ (~self.rate_initalised)

Populated == [rate_initalised |-> TRUE, standing_initalised |-> TRUE]

\* AsyncUpdateData without lines 214-215: the flags are never set
AsyncUpdateData_NoFlags(self, due, td) ==
    IF NeverPopulated(self)
    THEN IF td.raised
         THEN [self |-> self, calls |-> <<"get_tariff">>, raised |-> TRUE,
               exc |-> td.exc, ret |-> NoData]
         ELSE [self |-> self, calls |-> <<"get_tariff">>, raised |-> FALSE,
               exc |-> "", ret |-> Mapping(td.ret)]
    ELSE IF due
    THEN IF td.raised
         THEN [self |-> self, calls |-> <<"get_tariff">>, raised |-> TRUE,
               exc |-> td.exc, ret |-> NoData]
         ELSE [self |-> self, calls |-> <<"get_tariff">>, raised |-> FALSE,
               exc |-> "", ret |-> Mapping(td.ret)]
    ELSE [self |-> self, calls |-> <<>>, raised |-> FALSE, exc |-> "",
          ret |-> EmptyMapping]

\* AsyncUpdateData with lines 214-215 moved before the fetch of line 212
AsyncUpdateData_FlagsFirst(self, due, td) ==
    IF NeverPopulated(self)
    THEN IF td.raised
         THEN [self |-> Populated, calls |-> <<"get_tariff">>, raised |-> TRUE,
               exc |-> td.exc, ret |-> NoData]
         ELSE [self |-> Populated, calls |-> <<"get_tariff">>, raised |-> FALSE,
               exc |-> "", ret |-> Mapping(td.ret)]
    ELSE IF due
    THEN IF td.raised
         THEN [self |-> self, calls |-> <<"get_tariff">>, raised |-> TRUE,
               exc |-> td.exc, ret |-> NoData]
         ELSE [self |-> self, calls |-> <<"get_tariff">>, raised |-> FALSE,
               exc |-> "", ret |-> Mapping(td.ret)]
    ELSE [self |-> self, calls |-> <<>>, raised |-> FALSE, exc |-> "",
          ret |-> EmptyMapping]

\* TariffCoordinator._async_update_data: the flags after the call, the
\* requests issued, and what the call returns (ret) or raises (exc)
AsyncUpdateData(self, due, td) ==
    IF NeverPopulated(self)
    THEN IF td.raised
         THEN [self |-> self, calls |-> <<"get_tariff">>, raised |-> TRUE,
               exc |-> td.exc, ret |-> NoData]
         ELSE [self |-> Populated, calls |-> <<"get_tariff">>, raised |-> FALSE,
               exc |-> "", ret |-> Mapping(td.ret)]
    ELSE IF due
    THEN IF td.raised
         THEN [self |-> self, calls |-> <<"get_tariff">>, raised |-> TRUE,
               exc |-> td.exc, ret |-> NoData]
         ELSE [self |-> self, calls |-> <<"get_tariff">>, raised |-> FALSE,
               exc |-> "", ret |-> Mapping(td.ret)]
    ELSE [self |-> self, calls |-> <<>>, raised |-> FALSE, exc |-> "",
          ret |-> EmptyMapping]

\* RateHandleUpdate without the `if self.coordinator.data:` test
RateHandleUpdate_NoGuard(native_value, d) == <<RoundDiv(d.rate, 10)>>

\* Rate._handle_coordinator_update: rate / 100 rounded to 4 decimals; with
\* the rate in thousandths that is rate / 10 in ten-thousandths
RateHandleUpdate(native_value, d) ==
    IF Truthy(d) THEN <<RoundDiv(d.rate, 10)>> ELSE native_value

\* Standing._handle_coordinator_update
StandingHandleUpdate(native_value, d) ==
    IF Truthy(d) THEN <<RoundDiv(d.standing_charge, 10)>> ELSE native_value

----------------------------------------------------------------------------
(* State machine.  The entities own disjoint state and share only the      *)
(* clock and the stateless client, so a run follows the ticks of one       *)
(* entity: the usage sensor, the cost sensor, or the tariff coordinator    *)
(* with its Rate and Standing listeners.  The host decides when a tick     *)
(* happens; the model lets one happen at any time.                         *)

Entities == {"usage", "cost", "tariff"}

NoEv == [op |-> "init", gate |-> "skipped", minute |-> <<>>, reads |-> <<>>,
         calls |-> <<>>, outcome |-> "none", exc |-> "", reading |-> <<>>,
         value |-> <<>>, window |-> <<>>, mapping |-> <<>>,
         status |-> <<>>, entries |-> <<>>, token |-> <<>>, result |-> <<>>]

GateName(initialised, due) ==
    IF ~initialised THEN "skipped" ELSE IF due THEN "due" ELSE "not_due"

\* what a usage or cost tick leaves in ev
DailyEv(op, initialised, due, t1, t2, rdAnswer, dd, r) ==
    IF r.calls = <<>>
    THEN [NoEv EXCEPT !.op = op,
                      !.gate = GateName(initialised, due),
                      !.minute = IF initialised THEN <<MinuteOf(t1)>> ELSE <<>>,
                      !.outcome = IF r.raised THEN "raised" ELSE "returned"]
    ELSE [NoEv EXCEPT !.op = op,
                      !.gate = GateName(initialised, due),
                      !.minute = IF initialised THEN <<MinuteOf(t1)>> ELSE <<>>,
                      !.reads = <<t1, t2>>,
                      !.calls = r.calls,
                      !.outcome = IF r.raised THEN "raised" ELSE "returned",
                      !.exc = r.exc,
                      !.reading = IF Len(dd.calls) = 2 /\ ~get_reading(rdAnswer).raised
                                  THEN <<rdAnswer.data>> ELSE <<>>,
                      !.value = IF dd.raised THEN <<>> ELSE <<dd.value>>,
                      !.window = <<dd.t_from, dd.t_to>>]

\* the refresh counter after a tick at time t that ends at time t_end
Counted(count, counts, t, t_end) ==
    IF ClockHour(t_end) # ClockHour(t) THEN 0
    ELSE IF counts /\ count < MaxCount THEN count + 1
    ELSE count

InitEntities ==
    /\ usage_initalised = FALSE
    /\ usage_native_value = <<>>
    /\ usage_last_reset = <<>>
    /\ cost_initialised = FALSE
    /\ cost_native_value = <<>>
    /\ rate_initalised = FALSE
    /\ standing_initalised = FALSE
    /\ coordinator_data = NoData
    /\ rate_native_value = <<>>
    /\ standing_native_value = <<>>
    /\ coordinator_called = FALSE
    /\ last_mapping = <<>>
    /\ ok_in_hour = 0
    /\ ev = NoEv

\* no client has been constructed
InitClient ==
    /\ client_id = 0
    /\ hass_data = <<>>
    /\ open_sessions = {}
    /\ session_token = <<>>
    /\ ve_cache = {}
    /\ ve_first = <<>>

\* the platform has not been set up
InitSetup ==
    /\ topology = <<>>
    /\ entities = <<>>

Init ==
    /\ now \in SceneStarts
    /\ deadline = now + MaxElapsed
    /\ entity \in Entities
    /\ InitEntities
    /\ InitClient
    /\ InitSetup

\* the wall clock moves on
Advance ==
    /\ now < deadline
    /\ now' = now + 1
    /\ ok_in_hour' = Counted(ok_in_hour, FALSE, now, now + 1)
    /\ ev' = [NoEv EXCEPT !.op = "clock"]
    /\ UNCHANGED <<deadline, entity, usageVars, costVars, tariffVars, clientVars, setupVars>>

\* the host polls UsageSensor.async_update
UsageUpdate ==
    /\ entity = "usage"
    /\ \E t2 \in ClockReads(now), cuAnswer \in CatchupAnswers, rdAnswer \in ReadingAnswers :
        LET self == [initalised |-> usage_initalised,
                     native_value |-> usage_native_value,
                     last_reset |-> usage_last_reset]
            due == should_update(MinuteOf(now))
            dd == daily_data(now, t2, cuAnswer, rdAnswer)
            r == UsageAsyncUpdate(self, due, dd)
            fetch == r.calls # <<>>
            t_end == IF fetch THEN t2 ELSE now
        IN  /\ usage_initalised' = r.self.initalised
            /\ usage_native_value' = r.self.native_value
            /\ usage_last_reset' = r.self.last_reset
            /\ now' = t_end
            /\ ok_in_hour' = Counted(ok_in_hour,
                                     usage_initalised /\ fetch /\ ~r.raised, now, t_end)
            /\ ev' = DailyEv("usage", usage_initalised, due, now, t2, rdAnswer, dd, r)
            /\ UNCHANGED <<deadline, entity, costVars, tariffVars, clientVars, setupVars>>

\* the host polls Cost.async_update
CostUpdate ==
    /\ entity = "cost"
    /\ \E t2 \in ClockReads(now), cuAnswer \in CatchupAnswers, rdAnswer \in ReadingAnswers :
        LET self == [initialised |-> cost_initialised,
                     native_value |-> cost_native_value]
            due == should_update(MinuteOf(now))
            dd == daily_data(now, t2, cuAnswer, rdAnswer)
            r == CostAsyncUpdate(self, due, dd)
            fetch == r.calls # <<>>
            t_end == IF fetch THEN t2 ELSE now
        IN  /\ cost_initialised' = r.self.initialised
            /\ cost_native_value' = r.self.native_value
            /\ now' = t_end
            /\ ok_in_hour' = Counted(ok_in_hour,
                                     cost_initialised /\ fetch /\ ~r.raised, now, t_end)
            /\ ev' = DailyEv("cost", cost_initialised, due, now, t2, rdAnswer, dd, r)
            /\ UNCHANGED <<deadline, entity, usageVars, tariffVars, clientVars, setupVars>>

\* the coordinator's refresh: _async_update_data runs; when it returns, the
\* result becomes coordinator.data; Rate and Standing are then notified
TariffUpdate ==
    /\ entity = "tariff"
    /\ \E answer \in TariffAnswers :
        LET self == [rate_initalised |-> rate_initalised,
                     standing_initalised |-> standing_initalised]
            due == should_update(MinuteOf(now))
            r == AsyncUpdateData(self, due, tariff_data(answer))
            d == IF r.raised THEN coordinator_data ELSE r.ret
        IN  /\ rate_initalised' = r.self.rate_initalised
            /\ standing_initalised' = r.self.standing_initalised
            /\ coordinator_data' = d
            /\ rate_native_value' = RateHandleUpdate(rate_native_value, d)
            /\ standing_native_value' = StandingHandleUpdate(standing_native_value, d)
            /\ coordinator_called' = TRUE
            /\ last_mapping' = IF (~r.raised) /\ Truthy(r.ret) THEN <<r.ret>> ELSE last_mapping
            /\ ev' = [NoEv EXCEPT
                        !.op = IF coordinator_called THEN "tariff" ELSE "tariff_first",
                        !.gate = GateName(~NeverPopulated(self), due),
                        !.minute = IF NeverPopulated(self) THEN <<>> ELSE <<MinuteOf(now)>>,
                        !.calls = r.calls,
                        !.outcome = IF r.raised THEN "raised" ELSE "returned",
                        !.exc = r.exc,
                        !.mapping = IF r.raised THEN <<>> ELSE <<r.ret>>,
                        !.status = IF r.calls = <<>> \/ answer.failed
                                   THEN <<>> ELSE <<answer.status>>,
                        !.entries = IF r.calls = <<>> \/ answer.failed
                                    THEN <<>> ELSE <<Len(answer.data)>>]
            /\ UNCHANGED <<now, deadline, entity, ok_in_hour, usageVars, costVars,
                         clientVars, setupVars>>

Next == Advance \/ UsageUpdate \/ CostUpdate \/ TariffUpdate

Spec == Init /\ [][Next]_vars

\* the gate over a whole clock hour: the coordinator is polled at any time of
\* the hour from 00:00:00 of day 1, the clock standing still
InitGate ==
    /\ now \in {DayUnits + k : k \in 0..119}
    /\ deadline = now
    /\ entity = "tariff"
    /\ InitEntities
    /\ InitClient
    /\ InitSetup

SpecGate == InitGate /\ [][TariffUpdate]_vars

----------------------------------------------------------------------------
(* The integration's life cycle (__init__.py) and the calls on its client  *)

\* async_setup_entry of __init__.py: a client is constructed, its session
\* opened, and stored in hass.data
SetupEntry ==
    /\ entity = "client"
    /\ hass_data = <<>>
    /\ client_id < MaxClients
    /\ client_id' = client_id + 1
    /\ hass_data' = <<client_id + 1>>
    /\ open_sessions' = open_sessions \cup {client_id + 1}
    /\ session_token' = <<>>
    /\ ve_first' = <<>>
    /\ ev' = [NoEv EXCEPT !.op = "setup_entry", !.outcome = "returned"]
    /\ UNCHANGED <<now, deadline, entity, ok_in_hour, ve_cache, usageVars, costVars,
                   tariffVars, setupVars>>

\* async_unload_entry of __init__.py: when the platforms unloaded, the client
\* is popped from hass.data
UnloadEntry ==
    /\ entity = "client"
    /\ hass_data # <<>>
    /\ \E unload_ok \in BOOLEAN :
        /\ hass_data' = IF unload_ok THEN <<>> ELSE hass_data
        /\ ev' = [NoEv EXCEPT !.op = "unload_entry", !.outcome = "returned",
                               !.result = <<unload_ok>>]
    /\ UNCHANGED <<now, deadline, entity, ok_in_hour, client_id, open_sessions,
                   session_token, ve_cache, ve_first, usageVars, costVars,
                   tariffVars, setupVars>>

\* api.connect() on the entry's client
Connect ==
    /\ entity = "client"
    /\ hass_data # <<>>
    /\ \E answer \in AuthAnswers :
        LET r == connect(session_token, answer)
        IN  /\ session_token' = r.token
            /\ ev' = [NoEv EXCEPT !.op = "connect",
                                   !.calls = <<"auth">>,
                                   !.outcome = IF r.raised THEN "raised" ELSE "returned",
                                   !.exc = r.exc,
                                   !.status = IF answer.failed THEN <<>>
                                              ELSE <<answer.status>>,
                                   !.token = answer.token]
    /\ UNCHANGED <<now, deadline, entity, ok_in_hour, client_id, hass_data,
                   open_sessions, ve_cache, ve_first, usageVars, costVars,
                   tariffVars, setupVars>>

\* api.get_virtual_entites() on the entry's client; the request carries the
\* headers of the session
GetVirtualEntites ==
    /\ entity = "client"
    /\ hass_data # <<>>
    /\ \E answer \in EntityAnswers :
        LET id == hass_data[1]
            r == get_virtual_entites(id \in ve_cache, answer)
        IN  /\ ve_cache' = ve_cache \cup {id}
            /\ ve_first' = IF ve_first = <<>> /\ ~r.raised THEN <<r.ret>> ELSE ve_first
            /\ ev' = [NoEv EXCEPT !.op = "get_virtual_entites",
                                   !.calls = r.calls,
                                   !.outcome = IF r.raised THEN "raised" ELSE "returned",
                                   !.exc = r.exc,
                                   !.token = IF r.calls = <<>> THEN <<>> ELSE session_token,
                                   !.result = IF r.raised THEN <<>> ELSE <<r.ret>>]
    /\ UNCHANGED <<now, deadline, entity, ok_in_hour, client_id, hass_data,
                   open_sessions, session_token, usageVars, costVars, tariffVars,
                   setupVars>>

\* the config flow validates credentials with a client of its own
ValidateInput ==
    /\ entity = "client"
    /\ \E answer \in AuthAnswers :
        LET r == validate_input(open_sessions, answer)
        IN  /\ open_sessions' = r.sessions
            /\ ev' = [NoEv EXCEPT !.op = "validate_input",
                                   !.calls = <<"auth">>,
                                   !.outcome = IF r.raised THEN "raised" ELSE "returned",
                                   !.exc = r.exc,
                                   !.status = IF answer.failed THEN <<>>
                                              ELSE <<answer.status>>]
    /\ UNCHANGED <<now, deadline, entity, ok_in_hour, client_id, hass_data,
                   session_token, ve_cache, ve_first, usageVars, costVars,
                   tariffVars, setupVars>>

InitClientRun ==
    /\ now = DayUnits
    /\ deadline = now
    /\ entity = "client"
    /\ InitEntities
    /\ InitClient
    /\ InitSetup

NextClient == SetupEntry \/ UnloadEntry \/ Connect \/ GetVirtualEntites \/ ValidateInput

SpecClient == InitClientRun /\ [][NextClient]_vars

----------------------------------------------------------------------------
(* Platform set-up and device naming (sensor.py)                           *)

\* async_setup_entry of sensor.py, run once for the entry's client
PlatformSetup ==
    /\ entity = "setup"
    /\ ev.op = "init"
    /\ hass_data # <<>>
    /\ \E auth \in AuthAnswers, veStatus \in {"ClientError", "500", "200"},
          failAt \in 0..Len(topology), failAs \in {"ClientError", "500"} :
        LET id == hass_data[1]
            veAnswer == [failed |-> veStatus = "ClientError",
                         status |-> IF veStatus = "200" THEN 200 ELSE 500,
                         data |-> topology]
            r == async_setup_entry(session_token, id \in ve_cache, auth, veAnswer,
                                   topology, failAt, failAs)
        IN  /\ session_token' = r.token
            /\ ve_cache' = IF r.cached THEN ve_cache \cup {id} ELSE ve_cache
            /\ ve_first' = IF r.cached /\ veStatus = "200" THEN <<topology>> ELSE ve_first
            /\ entities' = r.entities
            /\ ev' = [NoEv EXCEPT !.op = "platform_setup",
                                   !.calls = r.calls,
                                   !.outcome = IF r.raised THEN "raised" ELSE "returned",
                                   !.exc = r.exc]
    /\ UNCHANGED <<now, deadline, entity, ok_in_hour, client_id, hass_data,
                   open_sessions, topology, usageVars, costVars, tariffVars>>

\* the entry's client exists and upstream holds some topology
InitSetupRun ==
    /\ now = DayUnits
    /\ deadline = now
    /\ entity = "setup"
    /\ InitEntities
    /\ client_id = 1
    /\ hass_data = <<1>>
    /\ open_sessions = {1}
    /\ session_token = <<>>
    /\ ve_cache = {}
    /\ ve_first = <<>>
    /\ topology \in Topologies
    /\ entities = <<>>

SpecSetup == InitSetupRun /\ [][PlatformSetup]_vars

\* device_info of a sensor, a cached property: computed once from the
\* sensor's resource and virtual entity
DeviceInfo ==
    /\ entity = "naming"
    /\ ev.op = "init"
    /\ LET ve == topology[1]
           r == device_name(ve.resources[1], ve)
       IN  ev' = [NoEv EXCEPT !.op = "device_info",
                               !.outcome = IF r.raised THEN "raised" ELSE "returned",
                               !.exc = r.exc,
                               !.result = IF r.raised THEN <<>> ELSE <<r.ret>>]
    /\ UNCHANGED <<now, deadline, entity, ok_in_hour, usageVars, costVars, tariffVars,
                   clientVars, setupVars>>

\* one virtual entity with one resource of any classifier
InitNaming ==
    /\ now = DayUnits
    /\ deadline = now
    /\ entity = "naming"
    /\ InitEntities
    /\ InitClient
    /\ topology \in {<<[id |-> 1, resources |-> ResourcesOf(1, <<c>>)]>> : c \in Classifiers}
    /\ entities = <<>>

SpecNaming == InitNaming /\ [][DeviceInfo]_vars

----------------------------------------------------------------------------
(* Properties *)

DailyOps == {"usage", "cost"}
TariffOps == {"tariff_first", "tariff"}
TickOps == DailyOps \cup TariffOps

\* the minutes of the two due windows
DueMinutes == (1..5) \cup (31..35)

\* C1: in steady-state polling (the entity was initialised before the tick)
\* no tick of the usage sensor, the cost sensor or the tariff coordinator
\* ends in an exception, whatever upstream answers.
C1_NoTickRaises ==
    (ev.op \in TickOps /\ ev.gate # "skipped") => ev.outcome # "raised"

\* C2: a usage or cost refresh that fails (an upstream request raises)
\* leaves the native value, the last-reset timestamp and the initialised
\* flag of the sensor exactly as they were before the tick.
C2_FailedRefreshKeepsCache ==
    [][(ev'.op \in DailyOps /\ ev'.outcome = "raised")
         => UNCHANGED <<usageVars, costVars>>]_vars

\* an initialised usage sensor whose refresh just failed on a non-200 reading
C2_Witness ==
    /\ ev.op = "usage" /\ ev.outcome = "raised" /\ ev.exc = "ValueError"
    /\ ev.calls = <<"catchup", "get_reading">>
    /\ usage_initalised /\ usage_native_value # <<>>

\* C3: when get_reading returns a window with no entries, daily_data returns
\* (it does not raise) and the sensor's cached state is left unchanged.
C3_EmptyWindowIsNoValue ==
    [][(ev'.op \in DailyOps /\ ev'.reading = << <<>> >>)
         => (ev'.outcome = "returned" /\ UNCHANGED <<usageVars, costVars>>)]_vars

\* C4 as stated: the coordinator's first update call fetches whatever the
\* gate says; every later call fetches exactly when the gate is due, and a
\* non-due later call issues no request and returns the empty mapping.
C4_LaterCallsFollowGate ==
    /\ ev.op = "tariff_first" => ev.calls = <<"get_tariff">>
    /\ ev.op = "tariff" =>
         /\ (ev.calls = <<"get_tariff">>) <=> (MinuteOf(now) \in DueMinutes)
         /\ (MinuteOf(now) \notin DueMinutes) =>
                (ev.calls = <<>> /\ ev.mapping = <<EmptyMapping>>)

\* C4 amended: every update call made before a fetch has succeeded fetches
\* whatever the gate says (the first call is one of them); every call made
\* after a fetch has succeeded fetches exactly when the gate is due, and when
\* it is not due issues no request and returns the empty mapping.
C4_CallsAfterSuccessFollowGate ==
    [][ev'.op \in TariffOps =>
          IF last_mapping = <<>>
          THEN ev'.calls = <<"get_tariff">>
          ELSE /\ (ev'.calls = <<"get_tariff">>) <=> (MinuteOf(now) \in DueMinutes)
               /\ (MinuteOf(now) \notin DueMinutes) =>
                      (ev'.calls = <<>> /\ ev'.outcome = "returned"
                       /\ ev'.mapping = <<EmptyMapping>>)]_vars

\* a call after a successful fetch, in a non-due minute, returned {}
C4_Witness ==
    /\ ev.op = "tariff" /\ last_mapping # <<>>
    /\ MinuteOf(now) \notin DueMinutes
    /\ ev.calls = <<>> /\ ev.mapping = <<EmptyMapping>>

\* v is x / q rounded to the nearest integer
IsRounded(v, x, q) == 2 * (q * v - x) <= q /\ 2 * (x - q * v) <= q

\* native_value holds raw / 10 rounded: with raw in thousandths, raw / 100
\* in ten-thousandths (4 decimals)
Shows(native_value, raw) ==
    Len(native_value) = 1 /\ IsRounded(native_value[1], raw, 10)

\* C5: a coordinator update carrying the empty mapping leaves the Rate and
\* Standing values unchanged; one carrying a non-empty mapping sets them to
\* rate / 100 and standing_charge / 100 rounded to 4 decimals (raw 1550 shows
\* as 15.5); so each sensor always shows the most recent non-empty mapping.
C5_ListenersFollowMapping ==
    [][ev'.op \in TariffOps =>
          /\ ev'.mapping = <<EmptyMapping>> =>
                 UNCHANGED <<rate_native_value, standing_native_value>>
          /\ (ev'.mapping # <<>> /\ ev'.mapping # <<EmptyMapping>>) =>
                 /\ Shows(rate_native_value', ev'.mapping[1].rate)
                 /\ Shows(standing_native_value', ev'.mapping[1].standing_charge)
                 /\ ev'.mapping[1].rate = 1550000 => rate_native_value' = <<155000>>
          /\ last_mapping' # <<>> =>
                 /\ Shows(rate_native_value', last_mapping'[1].rate)
                 /\ Shows(standing_native_value', last_mapping'[1].standing_charge)]_vars

\* an empty mapping arrived while Rate was showing 15.5
C5_Witness ==
    /\ ev.op = "tariff" /\ ev.mapping = <<EmptyMapping>>
    /\ rate_native_value = <<155000>> /\ standing_native_value # <<>>

\* C6: the usage sensor becomes initialised exactly on a tick whose
\* calculator result is returned and non-zero, and then records the rounded
\* value and the window start together; until then it holds neither.  Once
\* initialised it stays so, issues requests only in a due minute, and in a
\* non-due minute issues none and changes nothing.
C6_UsageInitialisedThenGated ==
    [][/\ ev'.op # "usage" => UNCHANGED usageVars
       /\ (ev'.op = "usage" /\ ~usage_initalised) =>
             /\ usage_initalised' <=>
                    (ev'.outcome = "returned" /\ ev'.value # <<>> /\ ev'.value # <<0>>)
             /\ usage_initalised' =>
                    /\ Len(usage_native_value') = 1
                    /\ IsRounded(usage_native_value'[1], ev'.value[1], 10)
                    /\ usage_last_reset' = <<ev'.window[1]>>
             /\ ~usage_initalised' =>
                    (usage_native_value' = <<>> /\ usage_last_reset' = <<>>)
       /\ (ev'.op = "usage" /\ usage_initalised) =>
             /\ usage_initalised'
             /\ ev'.calls # <<>> => MinuteOf(now) \in DueMinutes
             /\ MinuteOf(now) \notin DueMinutes =>
                    (ev'.calls = <<>> /\ UNCHANGED usageVars /\ now' = now)]_vars

\* an initialised usage sensor was polled in a non-due minute
C6_Witness ==
    /\ ev.op = "usage" /\ ev.gate = "not_due" /\ ev.calls = <<>>
    /\ usage_initalised /\ usage_native_value # <<>> /\ usage_last_reset # <<>>

\* C7: a calculator result of zero changes neither sensor's value,
\* last-reset or initialised flag.
C7_ZeroResultKeepsCache ==
    [][(ev'.op \in DailyOps /\ ev'.value = <<0>>)
         => UNCHANGED <<usageVars, costVars>>]_vars

\* an initialised cost sensor got a zero result and still shows its value
C7_Witness ==
    /\ ev.op = "cost" /\ ev.value = <<0>> /\ ev.outcome = "returned"
    /\ cost_initialised /\ cost_native_value # <<>>

\* C8: an initialised usage or cost sensor performs at most two refreshes
\* that succeed in any clock hour (one per due window).
C8_AtMostTwoPerHour == ok_in_hour <= 2

\* C9: whenever the gate is consulted it answers from the minute of the hour
\* alone: due exactly for the minutes 1..5 and 31..35 of 0..59.
C9_GateWindows ==
    ev.minute # <<>> =>
        /\ ev.minute[1] \in 0..59
        /\ ev.gate \in {"due", "not_due"}
        /\ ev.gate = "due" <=> ev.minute[1] \in DueMinutes

\* the gate answered due in the last minute of the second window
C9_Witness == ev.gate = "due" /\ ev.minute = <<35>>

\* the window the effective-day rule gives for the current time t
RuleWindow(t) ==
    LET day == IF TimeOfDay(t) <= EarlyCutoff THEN DateOf(t) - 1 ELSE DateOf(t)
    IN  <<day * DayUnits, day * DayUnits + TimeOfDay(t) - (t % 2)>>

\* C10: the window daily_data requests is the window of the effective-day
\* rule for the current time (either of the two clock reads may stand for
\* it); its start and end fall on the same date, start first.
C10_EffectiveDayWindow ==
    ev.window # <<>> =>
        /\ \E t \in {ev.reads[1], ev.reads[2]} : ev.window = RuleWindow(t)
        /\ DateOf(ev.window[1]) = DateOf(ev.window[2])
        /\ ev.window[1] <= ev.window[2]

\* when both clock reads of daily_data return the same time, the requested
\* window is the window of the effective-day rule for that time
EffectiveDayWindowOfOneRead ==
    (ev.window # <<>> /\ ev.reads[1] = ev.reads[2]) =>
        ev.window = RuleWindow(ev.reads[1])

\* C11: for a reading window of exactly two entries daily_data returns the
\* sum of both values; for a window of exactly one entry, that entry's value.
C11_WindowIsSummed ==
    (ev.op \in DailyOps /\ ev.reading # <<>>) =>
        /\ Len(ev.reading[1]) = 1 => ev.value = <<ev.reading[1][1]>>
        /\ Len(ev.reading[1]) = 2 => ev.value = <<ev.reading[1][1] + ev.reading[1][2]>>

\* a window of two non-zero entries came back and was summed
C11_Witness ==
    /\ ev.op = "usage" /\ ev.reading = << <<1234000, 1234000>> >>
    /\ ev.value = <<2468000>>

\* C16: a refresh that issues the catchup request goes on to issue the
\* reading request whatever becomes of the catchup: a failed catchup does
\* not end the refresh.
C16_CatchupFailureIsNotFatal ==
    (ev.op \in DailyOps /\ ev.calls # <<>>) =>
        (Len(ev.calls) = 2 /\ ev.calls[2] = "get_reading")

\* C17: get_tariff fails with one and the same error kind (the ValueError of
\* a non-200 response) when upstream answers with a non-200 status and when
\* it answers 200 with an empty tariff list.
C17_OneErrorKind ==
    (ev.op \in TariffOps /\ ev.status # <<>>) =>
        /\ ev.status # <<200>> => (ev.outcome = "raised" /\ ev.exc = "ValueError")
        /\ (ev.status = <<200>> /\ ev.entries = <<0>>) =>
               (ev.outcome = "raised" /\ ev.exc = "ValueError")

\* C18: the cost sensor fetches on every tick until a returned non-zero
\* result initialises it, and afterwards fetches exactly in due minutes; the
\* value it shows is the raw result / 100 rounded to 2 decimals (raw 1234
\* shows as 12.34).
C18_CostGatedAndScaled ==
    [][ev'.op = "cost" =>
          /\ ~cost_initialised =>
                 /\ ev'.calls # <<>>
                 /\ cost_initialised' <=>
                        (ev'.outcome = "returned" /\ ev'.value # <<>> /\ ev'.value # <<0>>)
          /\ cost_initialised =>
                 /\ cost_initialised'
                 /\ ev'.calls # <<>> <=> MinuteOf(now) \in DueMinutes
          /\ (ev'.outcome = "returned" /\ ev'.value # <<>> /\ ev'.value # <<0>>) =>
                 /\ Len(cost_native_value') = 1
                 /\ IsRounded(cost_native_value'[1], ev'.value[1], 1000)
                 /\ ev'.value = <<1234000>> => cost_native_value' = <<1234>>
          /\ ~(ev'.outcome = "returned" /\ ev'.value # <<>> /\ ev'.value # <<0>>) =>
                 UNCHANGED costVars]_vars

\* an initialised cost sensor fetched raw 1234 in a due minute and shows 12.34
C18_Witness ==
    /\ ev.op = "cost" /\ ev.gate = "due" /\ ev.value = <<1234000>>
    /\ cost_initialised /\ cost_native_value = <<1234>>

\* C20: every refresh issues exactly one catchup request, first, and at most
\* one reading request, after it; a reading is never obtained without the
\* catchup before it.
C20_CatchupThenReading ==
    (ev.op \in DailyOps /\ ev.reads # <<>>) =>
        /\ ev.calls \in {<<"catchup">>, <<"catchup", "get_reading">>}
        /\ ev.reading # <<>> => ev.calls = <<"catchup", "get_reading">>

\* a refresh issued both requests and returned a value
C20_Witness ==
    /\ ev.op = "cost" /\ ev.calls = <<"catchup", "get_reading">>
    /\ ev.outcome = "returned" /\ ev.value # <<>>

\* C13: after a first successful get_virtual_entites on a client, every
\* later call on that client returns the list the first call returned and
\* issues no request.
C13_VirtualEntitiesMemoized ==
    [][(ev'.op = "get_virtual_entites" /\ ve_first # <<>>) =>
          (ev'.outcome = "returned" /\ ev'.result = ve_first /\ ev'.calls = <<>>)]_vars

\* C14 as stated: connect raises the authentication error for every non-2xx
\* answer and then leaves the session without a new token; for every 2xx
\* answer (that returns a token) it returns and stores the token of the
\* answer; the token header changes in no other way, and every request of
\* get_virtual_entites carries it.
C14_ConnectOn2xx ==
    [][/\ (ev'.op = "connect" /\ ev'.status # <<>>) =>
             IF ev'.status[1] \in 200..299
             THEN ev'.token # <<>> =>
                     (ev'.outcome = "returned" /\ session_token' = ev'.token)
             ELSE /\ ev'.outcome = "raised" /\ ev'.exc = "ValueError"
                  /\ session_token' = session_token
       /\ ev'.op \notin {"connect", "setup_entry"} => session_token' = session_token
       /\ (ev'.op = "get_virtual_entites" /\ ev'.calls # <<>>) =>
             ev'.token = session_token]_vars

\* C14 amended: connect raises the authentication error for every answer
\* whose status is not 200 and then leaves the session without a new token;
\* for every answer of status 200 that returns a token it returns and stores
\* that token; the token header changes in no other way, and every request
\* of get_virtual_entites carries it.
C14_ConnectOn200 ==
    [][/\ (ev'.op = "connect" /\ ev'.status # <<>>) =>
             IF ev'.status = <<200>>
             THEN ev'.token # <<>> =>
                     (ev'.outcome = "returned" /\ session_token' = ev'.token)
             ELSE /\ ev'.outcome = "raised" /\ ev'.exc = "ValueError"
                  /\ session_token' = session_token
       /\ ev'.op \notin {"connect", "setup_entry"} => session_token' = session_token
       /\ (ev'.op = "get_virtual_entites" /\ ev'.calls # <<>>) =>
             ev'.token = session_token]_vars

\* a request of get_virtual_entites carried the token a connect had stored
C14_Witness ==
    /\ ev.op = "get_virtual_entites" /\ ev.calls = <<"virtualentity">>
    /\ ev.token = <<"jwt2">> /\ session_token = <<"jwt2">>

\* C15: the session of every client whose entry is no longer in hass.data
\* is closed.
C15_SessionsClosedAtTeardown ==
    \A id \in 1..client_id : hass_data # <<id>> => id \notin open_sessions

\* C12: setup never fails on a classifier missing from the meter registry,
\* and every cost sensor it creates comes after a usage sensor of the same
\* virtual entity and supply type whose resource id is the cost sensor's
\* meter id.
C12_CostMeterIsOwnUsage ==
    ev.op = "platform_setup" =>
        /\ ev.exc # "KeyError"
        /\ \A i \in 1..Len(entities) :
              entities[i].kind = "cost" =>
                 \E j \in 1..(i - 1) :
                    /\ entities[j].kind = "usage"
                    /\ entities[j].ve = entities[i].ve
                    /\ entities[j].classifier \o <<"cost">> = entities[i].classifier
                    /\ entities[i].meter_id = <<entities[j].resource_id>>

\* C19: the supply in the device name is "gas" for gas.consumption and
\* gas.consumption.cost, "electricity" for electricity.consumption and
\* electricity.consumption.cost, and naming fails with ValueError for every
\* classifier in which neither "electricity" nor "gas" is directly followed
\* by "consumption".
C19_SupplyTypeOfClassifier ==
    ev.op = "device_info" =>
        LET c == topology[1].resources[1].classifier
        IN  /\ c \in {<<"gas", "consumption">>, <<"gas", "consumption", "cost">>} =>
                 (ev.outcome = "returned" /\ ev.result[1][3] = "gas")
            /\ c \in {<<"electricity", "consumption">>,
                      <<"electricity", "consumption", "cost">>} =>
                 (ev.outcome = "returned" /\ ev.result[1][3] = "electricity")
            /\ (~ \E i \in 1..(Len(c) - 1) :
                    c[i] \in {"electricity", "gas"} /\ c[i + 1] = "consumption") =>
                 (ev.outcome = "raised" /\ ev.exc = "ValueError")

C19_Witness ==
    /\ ev.op = "device_info"
    /\ topology[1].resources[1].classifier = <<"electricity", "consumption", "cost">>
    /\ ev.result = << <<1, "smart", "electricity", "meter">> >>

\* C21: rate_initalised and standing_initalised are always equal; they turn
\* true only in an update call whose tariff fetch returned; an update call
\* that finds them false fetches whatever the gate says, and leaves them
\* false when the fetch fails.
C21_FlagsSetTogetherOnSuccess ==
    [][/\ rate_initalised' = standing_initalised'
       /\ (rate_initalised' /\ ~rate_initalised) =>
             (ev'.op \in TariffOps /\ ev'.calls = <<"get_tariff">>
              /\ ev'.outcome = "returned")
       /\ (ev'.op \in TariffOps /\ ~rate_initalised) =>
             /\ ev'.calls = <<"get_tariff">>
             /\ ev'.outcome = "raised" => (~rate_initalised' /\ ~standing_initalised')]_vars

\* after a failed first fetch the flags were still false, so a later call
\* in a minute outside the gate fetched, and its success set both flags
C21_Witness ==
    /\ ev.op = "tariff" /\ ev.gate = "skipped"
    /\ MinuteOf(now) \notin DueMinutes
    /\ ev.calls = <<"get_tariff">> /\ ev.outcome = "returned"
    /\ rate_initalised /\ standing_initalised

\* C22: the clock never going back, the usage sensor's last-reset never
\* moves backwards; an initialised sensor holds both a value and a
\* last-reset; and value and last-reset change only together, in a tick
\* whose fetch returned a non-zero value, the last-reset becoming the start
\* of that fetch's window.
C22_LastResetMonotonic ==
    [][/\ now' >= now
       /\ (usage_last_reset # <<>> /\ usage_last_reset' # <<>>) =>
             usage_last_reset'[1] >= usage_last_reset[1]
       /\ usage_initalised' =>
             (usage_native_value' # <<>> /\ usage_last_reset' # <<>>)
       /\ IF ev'.op = "usage" /\ ev'.value # <<>> /\ ev'.value # <<0>>
          THEN /\ IsRounded(usage_native_value'[1], ev'.value[1], 10)
               /\ usage_last_reset' = <<ev'.window[1]>>
          ELSE UNCHANGED <<usage_native_value, usage_last_reset>>]_vars

====
